---- MODULE Spec2Model ----
(***************************************************************************)
(* Model of the Transfer Engine (GoogleDriveService) and the Orchestrator  *)
(* (TriggerService) of GSM_RPICAM_NOTIFICATION.                            *)
(*                                                                         *)
(* Node.js runs every handler to its next await without interleaving, so   *)
(* each action below is one such run: from the resumption of an await (or  *)
(* an API call) to the next suspension point.  EventEmitter.emit calls the *)
(* listeners synchronously, so an action that emits an event also runs the *)
(* Orchestrator's handler for it.                                          *)
(***************************************************************************)
EXTENDS Integers, Sequences, FiniteSets, Bags, TLC

(***************************************************************************)
(* Bounds of the model                                                     *)
(***************************************************************************)
MaxTime == 1
MaxFaults == 1
MaxCancels == 2
MaxRoutines == 2   \* notification routines started by delivered events
MaxSessions == 3   \* sessions of a job are counted up to this ("or more")
MaxEvents == 20    \* events of a type are counted up to this ("or more")

(***************************************************************************)
(* Program constants                                                       *)
(***************************************************************************)
RESUMABLE_THRESHOLD == 5 * 1024 * 1024
CHUNK_SIZE == 1024 * 1024

\* The job ids.  A job's background task reads and writes only its own entry
\* of activeUploads, so the engine is explored with one job driven through
\* every answer of its collaborators.  An id is unknown to the engine until
\* startUpload has created its job.
JobIds == {1}

\* File sizes the callers upload: empty, exactly the threshold, one byte
\* above it (five full chunks and a one-byte chunk).
FileSizes == {0, RESUMABLE_THRESHOLD, RESUMABLE_THRESHOLD + 1}

Min(a, b) == IF a < b THEN a ELSE b

(***************************************************************************)
(* UploadStatus                                                            *)
(***************************************************************************)
TerminalStatus == {"completed", "failed", "canceled"}

AbsentJob ==
  [status |-> "absent", bytesTotal |-> 0, bytesUploaded |-> 0,
   percentComplete |-> 0, endTime |-> -1, fileId |-> "null",
   webViewLink |-> "null", webContentLink |-> "null", error |-> "null"]

\* startUpload: the initial status object
InitialStatus(fileSize) ==
  [status |-> "pending", bytesTotal |-> fileSize, bytesUploaded |-> 0,
   percentComplete |-> 0, endTime |-> -1, fileId |-> "null",
   webViewLink |-> "null", webContentLink |-> "null", error |-> "null"]

\* task.ack: what the response to the latest chunk write of the session
\* acknowledged: the last byte of a parsed 308 Range, or one of
NoAck == -2        \* no 308 answered yet in this session (or a 200/201)
UnparsedAck == -1  \* a 308 without a Range header the code can parse

\* task.creates, task.sessions: the files.create requests and the resumable
\* session initiations issued for the job; task.createOk: files.create succeeded;
\* task.attempts: the PUT requests issued for the chunk in flight
IdleTask ==
  [pc |-> "idle", bytesUploaded |-> 0, chunkIdx |-> 0, putStart |-> 0,
   putSize |-> 0, frames |-> 0, depth |-> 0, respId |-> "null",
   respView |-> "null", respContent |-> "null", ack |-> NoAck,
   creates |-> 0, createOk |-> FALSE, sessions |-> 0, attempts |-> 0]

NoEvents ==
  [statusChange |-> 0, progress |-> 0, complete |-> 0, error |-> 0,
   canceled |-> 0]

NoCall == [op |-> "none", id |-> 0, ret |-> "none"]

(***************************************************************************)
(* TriggerStatus                                                           *)
(***************************************************************************)
\* waitForVideoCompletion: const checkInterval = 1000; const maxWaitTime = 120000
checkInterval == 1000
maxWaitTime == 120000

\* the trigger ids: `trigger_${Date.now()}`, one per clock value
TriggerIds == 0..MaxTime

\* TriggerController.startTrigger rejects an empty phone number
PhoneNumbers == {"+15550100"}

\* GSMService.getLocation: a fix, or the location without one
Locations == {"available", "unavailable"}

AbsentTrigger ==
  [currentStep |-> "absent", completed |-> FALSE, videoStatus |-> "undefined",
   uploadId |-> 0, uploadStatus |-> AbsentJob, uploadedFileId |-> "null",
   uploadedFileLink |-> "null", smsStatus |-> "undefined",
   earlyNotificationSent |-> FALSE, locationData |-> "undefined",
   error |-> "null"]

\* startTrigger: the initial status object
InitialTrigger == [AbsentTrigger EXCEPT !.currentStep = "initialized"]

\* executeFlow(triggerId, config): its position and its config argument
IdleFlow ==
  [pc |-> "idle", id |-> 0, phoneNumber |-> "", sendEarlyNotification |-> FALSE,
   elapsedTime |-> 0]

\* GSMService.sendNewSMS calls made, by the routine that made them
NoSms == [early |-> 0, final |-> 0, error |-> 0]

VARIABLES
  jobs,          \* activeUploads: job id -> UploadStatus ("absent": no entry)
  task,          \* the background task of each job: its position and locals
  isInitialized, \* GoogleDriveService.isInitialized
  now,           \* the latest value Date.now() returned
  emitted,       \* per job, the number of events emitted of each type
  lastProgress,  \* per job, bytesUploaded of the latest upload-progress event
  call,          \* the API call made by the latest step, with its result
  faults,        \* how often a collaborator has failed or answered unusually
  triggers,      \* TriggerService.triggers: id -> TriggerStatus ("absent": no entry)
  flow,          \* the executeFlow call in progress
  routines,      \* the notification routines suspended at an await (a bag)
  gsmInitialized, \* TriggerService.gsmInitialized
  sms,           \* the SMS sends invoked so far, by kind of routine
  held           \* the status object a caller of the engine holds a reference to

vars == <<jobs, task, isInitialized, now, emitted, lastProgress, call, faults,
          triggers, flow, routines, gsmInitialized, sms, held>>

\* the Orchestrator's state that no event handler writes
orch == <<flow, gsmInitialized, sms>>

(***************************************************************************)
(* Pure helpers                                                            *)
(***************************************************************************)

\* a file of exactly the threshold size sent down the resumable path
UseResumableAtThreshold(bytesTotal) == bytesTotal >= RESUMABLE_THRESHOLD

\* processUpload: const useResumable = status.bytesTotal > this.RESUMABLE_THRESHOLD
UseResumable(bytesTotal) == bytesTotal > RESUMABLE_THRESHOLD

\* the chunks fs.createReadStream yields with highWaterMark = CHUNK_SIZE
NumChunks(fileSize) == (fileSize + CHUNK_SIZE - 1) \div CHUNK_SIZE
ChunkLength(fileSize, k) == Min(CHUNK_SIZE, fileSize - k * CHUNK_SIZE)

\* Math.round((bytesUploaded / fileSize) * 100)
RoundPercent(bytesUploaded, fileSize) ==
  (200 * bytesUploaded + fileSize) \div (2 * fileSize)

\* A Range response header: absent, or "<unit>0-<last>".  The code's regex
\* /bytes=0-(\d+)/ matches only the unit "bytes=" followed by first byte 0.
NoRange == [present |-> FALSE, unit |-> "", first |-> 0, last |-> 0]
RangeHeader(unit, first, last) ==
  [present |-> TRUE, unit |-> unit, first |-> first, last |-> last]

RangeMatches(h) == h.present /\ h.unit = "bytes=" /\ h.first = 0

\* the parsed last byte taken as the next offset (without the + 1)
NextBytesUploadedOffByOne(h, bytesUploaded, chunkSize) ==
  IF RangeMatches(h) THEN h.last ELSE bytesUploaded + chunkSize

\* the 308 branch: the local bytesUploaded after the response
NextBytesUploaded(h, bytesUploaded, chunkSize) ==
  IF RangeMatches(h) THEN h.last + 1 ELSE bytesUploaded + chunkSize

\* a guard that forgets the failed jobs
CancelRefusedForgetsFailed(status) == status \in {"absent", "completed"}

\* cancelUpload's guard: if (!status || completed || failed) return false
CancelRefused(status) == status \in {"absent", "completed", "failed"}

(***************************************************************************)
(* Orchestrator: the notification routines up to their first await, and    *)
(* the handlers of the engine's events                                     *)
(***************************************************************************)

\* an extractConfigFromStatus that knows the trigger's phone number
ExtractConfigWithPhoneNumber(status) ==
  [phoneNumber |-> "+15550100", includeLocation |-> TRUE]

\* extractConfigFromStatus: phoneNumber: '' ("Must be filled in by the caller")
ExtractConfigFromStatus(status) ==
  [phoneNumber |-> "", includeLocation |-> TRUE]

\* a routine suspended in `await this.updateLocationData(triggerId)`; awaited:
\* executeFlow awaits it; phoneNumber: the config argument's phone number
Routine(kind, id, awaited, phoneNumber) ==
  [kind |-> kind, id |-> id, pc |-> "location", awaited |-> awaited,
   phoneNumber |-> phoneNumber]

\* sendEarlyNotification up to its first await: skipped if already sent
SendEarlyNotification(bag, status, id, awaited) ==
  IF status.earlyNotificationSent THEN bag
  ELSE bag (+) SetToBag({Routine("early", id, awaited, "")})

\* sendSmsNotification up to its first await: skipped if the early one was
\* sent, throws (to the caller's .catch) if there is no upload link
SendSmsNotification(bag, status, id, phoneNumber) ==
  IF status.earlyNotificationSent \/ status.uploadedFileLink = "null" THEN bag
  ELSE bag (+) SetToBag({Routine("final", id, FALSE, phoneNumber)})

\* sendErrorNotification up to its first await
SendErrorNotification(bag, status, id) ==
  bag (+) SetToBag({Routine("error", id, FALSE, "")})

\* a search that takes the first trigger of the table, whatever it tracks
OwnersAnyTrigger(uploadId) ==
  {id \in TriggerIds : triggers[id].currentStep # "absent"}

\* for (const [triggerId, triggerStatus] of this.triggers.entries())
\*   if (triggerStatus.uploadId === uploadId) { ...; break; }
\* (Map iterates in insertion order, and ids are inserted in clock order)
Owners(uploadId) ==
  {id \in TriggerIds : triggers[id].currentStep # "absent"
                       /\ triggers[id].uploadId = uploadId}
Owner(uploadId) ==
  CHOOSE id \in Owners(uploadId) : \A o \in Owners(uploadId) : id <= o

NoHandler == UNCHANGED <<triggers, routines>>

HandleUploadProgress(uploadId, uploadStatus) ==
  IF Owners(uploadId) = {} THEN NoHandler
  ELSE LET id == Owner(uploadId)
           status == [triggers[id] EXCEPT !.uploadStatus = uploadStatus]
       IN  /\ triggers' = [triggers EXCEPT ![id] = status]
           /\ routines' =
                IF /\ uploadStatus.percentComplete >= 10
                   /\ ~status.earlyNotificationSent
                   /\ status.smsStatus # "true"
                  THEN SendEarlyNotification(routines, status, id, FALSE)
                  ELSE routines

HandleUploadComplete(uploadId, uploadStatus) ==
  IF Owners(uploadId) = {} THEN NoHandler
  ELSE LET id == Owner(uploadId)
           status == [triggers[id] EXCEPT
                        !.uploadStatus = uploadStatus,
                        !.uploadedFileId = uploadStatus.fileId,
                        !.uploadedFileLink = uploadStatus.webViewLink]
       IN  /\ routines' =
                IF ~status.earlyNotificationSent
                  THEN SendSmsNotification(routines, status, id, "")
                  ELSE routines
           /\ triggers' = [triggers EXCEPT ![id] =
                IF status.currentStep = "uploading"
                  THEN [status EXCEPT !.currentStep = "completed",
                                      !.completed = TRUE]
                  ELSE status]

HandleUploadError(uploadId, error) ==
  IF Owners(uploadId) = {} THEN NoHandler
  ELSE LET id == Owner(uploadId)
           status == [triggers[id] EXCEPT !.error = "Upload error: " \o error]
       IN  /\ routines' =
                IF ~status.earlyNotificationSent
                  THEN SendErrorNotification(routines, status, id)
                  ELSE routines
           /\ triggers' = [triggers EXCEPT ![id] =
                [status EXCEPT !.currentStep = "failed", !.completed = TRUE]]

(***************************************************************************)
(* Events.  emit() runs the listeners synchronously: TriggerService        *)
(* listens to upload-progress, upload-complete and upload-error.           *)
(***************************************************************************)
\* A reference a caller holds to a status object: the job it describes, how
\* the caller got it, whether it is the very object activeUploads stores
\* (stored) or a different one, and whether the caller has written to it.
NoSnapshot == [id |-> 0, via |-> "none", stored |-> FALSE, mutated |-> FALSE]

SameObject(id, via) ==
  [id |-> id, via |-> via, stored |-> TRUE, mutated |-> FALSE]

\* { ...status }: a new object with the fields of the stored one (every field
\* of UploadStatus is a string, a number or null, so nothing is shared)
Spread(id, via) ==
  [id |-> id, via |-> via, stored |-> FALSE, mutated |-> FALSE]

\* a listener may keep the object an event carries
KeepPayload(j) == held' \in {held, Spread(j, "event")}

Count(j, type) ==
  emitted' = [emitted EXCEPT ![j][type] = Min(@ + 1, MaxEvents)]

EmitStatusChange(j) ==
  /\ Count(j, "statusChange")
  /\ UNCHANGED <<lastProgress, held>>
  /\ NoHandler

EmitProgress(j, snapshot) ==
  /\ Count(j, "progress")
  /\ lastProgress' = [lastProgress EXCEPT ![j] = snapshot.bytesUploaded]
  /\ HandleUploadProgress(j, snapshot)
  /\ KeepPayload(j)

EmitComplete(j, snapshot) ==
  /\ Count(j, "complete")
  /\ UNCHANGED lastProgress
  /\ HandleUploadComplete(j, snapshot)
  /\ KeepPayload(j)

EmitError(j, message) ==
  /\ Count(j, "error")
  /\ UNCHANGED <<lastProgress, held>>
  /\ HandleUploadError(j, message)

EmitCanceled(j, snapshot) ==
  /\ Count(j, "canceled")
  /\ UNCHANGED lastProgress
  /\ NoHandler
  /\ KeepPayload(j)

NoEmit == UNCHANGED <<emitted, lastProgress, held>> /\ NoHandler

(***************************************************************************)
(* Date.now(): a read returns some t not earlier than the latest value     *)
(* returned so far.                                                        *)
(***************************************************************************)
ClockValues == now..MaxTime
ReadClock(t) == t \in ClockValues /\ now' = t
NoClock(t) == t = now /\ UNCHANGED now

(***************************************************************************)
(* The collaborators (storage backend, capture, messaging, location) fail  *)
(* or answer unusually at most MaxFaults times in a run.                   *)
(***************************************************************************)
Fault(unusual) ==
  IF unusual THEN faults < MaxFaults /\ faults' = faults + 1
             ELSE UNCHANGED faults

(***************************************************************************)
(* Transfer Engine                                                         *)
(***************************************************************************)

\* the catch blocks of processResumableUpload, processUpload and startUpload
Failed(status, message, t) ==
  [status EXCEPT !.status = "failed", !.error = message, !.endTime = t]

\* A throw inside processResumableUpload: its catch marks the job failed and
\* emits upload-error, then rethrows to the frames above it (the enclosing
\* processResumableUpload calls of earlier sessions, processUpload's catch and
\* startUpload's .catch), each of which runs as a later microtask.
ThrowResumable(j, message, t) ==
  /\ ReadClock(t)
  /\ jobs' = [jobs EXCEPT ![j] = Failed(@, message, t)]
  /\ task' = [task EXCEPT ![j].pc = "unwind",
                          ![j].frames = task[j].depth - 1 + 2]
  /\ EmitError(j, message)

\* A throw inside processSimpleUpload (no catch of its own): processUpload's
\* catch runs, then startUpload's .catch
ThrowSimple(j, message, t) ==
  /\ ReadClock(t)
  /\ jobs' = [jobs EXCEPT ![j] = Failed(@, message, t)]
  /\ task' = [task EXCEPT ![j].pc = "unwind", ![j].frames = 1]
  /\ EmitError(j, message)

\* status.status = 'completed'; endTime; emit('upload-complete')
Complete(j, status, t, createOk) ==
  /\ ReadClock(t)
  /\ jobs' = [jobs EXCEPT ![j] =
                [status EXCEPT !.status = "completed", !.endTime = t]]
  /\ task' = [task EXCEPT ![j].pc = "done", ![j].createOk = createOk]
  /\ EmitComplete(j, jobs'[j])

\* a startUpload that stores the job before it checks the file
JobCreatedBeforeFileCheck(status, fileSize) == InitialStatus(fileSize)

\* startUpload: the throw for a missing file precedes activeUploads.set, so
\* the job table keeps what it had for the id (no entry)
JobAfterFileNotFound(status, fileSize) == status

\* startUpload after initClient: the file check, the job's creation, and
\* processUpload run up to its first await (upload-status-change, the one
\* event it emits, has no listener)
BeginUpload(j, exists, fileSize) ==
  /\ Fault(~exists)
  /\ IF ~exists
       THEN /\ call' = [op |-> "startUpload", id |-> j, ret |-> "FileNotFound"]
            /\ task' = [task EXCEPT ![j] = IdleTask]
            /\ jobs' = [jobs EXCEPT ![j] = JobAfterFileNotFound(@, fileSize)]
            /\ UNCHANGED <<emitted, lastProgress>>
       ELSE /\ call' = [op |-> "startUpload", id |-> j, ret |-> "ok"]
            \* processUpload: status.status = 'uploading'; emit status-change
            /\ jobs' = [jobs EXCEPT ![j] =
                          [InitialStatus(fileSize) EXCEPT !.status = "uploading"]]
            /\ Count(j, "statusChange")
            /\ UNCHANGED lastProgress
            /\ task' = [task EXCEPT ![j] =
                          IF UseResumable(fileSize)
                            THEN [IdleTask EXCEPT !.pc = "session", !.depth = 1,
                                                  !.sessions = 1]
                            ELSE [IdleTask EXCEPT !.pc = "create", !.creates = 1]]

\* startUpload(filePath, options) is called:
\* if (!this.isInitialized) await this.initClient()
StartUploadEngine(j, exists, fileSize) ==
  /\ jobs[j].status = "absent" /\ task[j].pc = "idle"
  /\ \A i \in JobIds : i < j => jobs[i].status # "absent"
  /\ UNCHANGED <<now, isInitialized>>
  /\ IF isInitialized THEN BeginUpload(j, exists, fileSize)
     ELSE /\ call' = [op |-> "startUpload", id |-> j, ret |-> "pending"]
          /\ task' = [task EXCEPT ![j].pc = "init"]
          /\ UNCHANGED <<jobs, emitted, lastProgress, faults>>

\* initClient: jwtClient.authorize() returns or throws; startUpload goes on
InitReturnEngine(j, authOk, exists, fileSize) ==
  /\ task[j].pc = "init"
  /\ UNCHANGED now
  /\ IF ~authOk
       THEN /\ Fault(TRUE)
            /\ call' = [op |-> "startUpload", id |-> j, ret |-> "AuthInitFailed"]
            /\ task' = [task EXCEPT ![j] = IdleTask]
            /\ UNCHANGED <<jobs, isInitialized, emitted, lastProgress>>
       ELSE /\ isInitialized' = TRUE
            /\ BeginUpload(j, exists, fileSize)

\* startUpload called through the engine's API
StartUpload(j, exists, fileSize) ==
  /\ UNCHANGED held
  /\ flow.pc # "startUpload"
  /\ StartUploadEngine(j, exists, fileSize)
  /\ NoHandler
  /\ UNCHANGED orch

\* initClient returns to a startUpload called through the engine's API
InitReturn(j, authOk, exists, fileSize) ==
  /\ UNCHANGED held
  /\ flow.pc # "startUpload"
  /\ InitReturnEngine(j, authOk, exists, fileSize)
  /\ NoHandler
  /\ UNCHANGED orch

\* processSimpleUpload: the status update after the request (and makeFilePublic)
SimpleDone(status, id, view, content) ==
  [status EXCEPT !.fileId = id, !.webViewLink = view, !.webContentLink = content,
                 !.bytesUploaded = status.bytesTotal, !.percentComplete = 100]

\* processSimpleUpload: files.create returns or throws
CreateResponse(j, ok, id, view, content, t) ==
  /\ task[j].pc = "create"
  /\ call' = NoCall
  /\ UNCHANGED <<isInitialized, orch>>
  /\ Fault(~ok \/ id = "null")
  /\ IF ~ok THEN ThrowSimple(j, "Request failed", t)
     ELSE IF id # "null"
       THEN \* await this.makeFilePublic(response.data.id)
            /\ task' = [task EXCEPT ![j].pc = "publicSimple", ![j].respId = id,
                                    ![j].respView = view,
                                    ![j].respContent = content,
                                    ![j].createOk = TRUE]
            /\ UNCHANGED jobs
            /\ NoClock(t)
            /\ NoEmit
     ELSE Complete(j, SimpleDone(jobs[j], id, view, content), t, TRUE)

\* processSimpleUpload: makeFilePublic returns or throws
PublicSimpleReturn(j, ok, t) ==
  /\ task[j].pc = "publicSimple"
  /\ call' = NoCall
  /\ UNCHANGED <<isInitialized, orch>>
  /\ Fault(~ok)
  /\ IF ~ok THEN ThrowSimple(j, "Permission request failed", t)
     ELSE Complete(j, SimpleDone(jobs[j], task[j].respId, task[j].respView,
                                 task[j].respContent), t, TRUE)

\* processResumableUpload: import axios, authorize and the session-initiation
\* POST have returned (ok) or one of them threw / no location header came back
SessionResponse(j, ok, t) ==
  /\ task[j].pc = "session"
  /\ call' = NoCall
  /\ UNCHANGED <<isInitialized, orch>>
  /\ Fault(~ok)
  /\ IF ~ok THEN ThrowResumable(j, "Session initiation failed", t)
     ELSE \* let bytesUploaded = 0; status.status = 'uploading'; emit; open stream
          /\ jobs' = [jobs EXCEPT ![j].status = "uploading"]
          /\ task' = [task EXCEPT ![j].pc = "read", ![j].bytesUploaded = 0,
                                  ![j].chunkIdx = 0, ![j].ack = NoAck]
          /\ NoClock(t)
          /\ EmitStatusChange(j)

\* the code after the chunk loop, from the point `from` on, up to its next await
AfterLoop(j, status, from, t) ==
  LET missing == status.webViewLink = "null" \/ status.webContentLink = "null"
      wait(pc) == /\ task' = [task EXCEPT ![j].pc = pc]
                  /\ jobs' = [jobs EXCEPT ![j] = status]
                  /\ NoClock(t)
                  /\ NoEmit
  IN  IF from = "links1" /\ missing THEN wait("links1")
      ELSE IF from \in {"links1", "public"} /\ status.fileId # "null"
        THEN wait("public")
      ELSE IF from = "links2" /\ missing THEN wait("links2")
      ELSE Complete(j, status, t, FALSE)

\* for await (const chunk of fileStream): the stream yields the next chunk, or ends
ChunkRead(j, t) ==
  /\ task[j].pc = "read"
  /\ call' = NoCall
  /\ UNCHANGED <<isInitialized, faults, orch>>
  /\ IF task[j].chunkIdx < NumChunks(jobs[j].bytesTotal)
       THEN IF jobs[j].status = "canceled"
              THEN ThrowResumable(j, "Upload canceled", t)
              ELSE \* Content-Range: bytes ${bytesUploaded}-${endByte}/${fileSize}
                   /\ task' = [task EXCEPT
                        ![j].pc = "put",
                        ![j].putStart = task[j].bytesUploaded,
                        ![j].putSize = ChunkLength(jobs[j].bytesTotal, task[j].chunkIdx),
                        ![j].chunkIdx = @ + 1,
                        ![j].attempts = 1]
                   /\ UNCHANGED jobs
                   /\ NoClock(t)
                   /\ NoEmit
       ELSE AfterLoop(j, jobs[j], "links1", t)

LinkPairs == {<<"link", "link">>, <<"null", "null">>, <<"link", "null">>}

\* the responses the storage backend can give to the chunk write in flight
\* (bytes start .. start + size - 1 of fileSize): 200/201 once it holds the
\* last byte, 308 with the range it holds (all of the chunk, none of it, or
\* one chunk less than it acknowledged before), 308 without a Range or with
\* one in another format, 404, another failure
ChunkResponses(start, size, fileSize) ==
  LET end == start + size - 1
      final == (end = fileSize - 1)
      r(k, i, l, h) == [kind |-> k, id |-> i, view |-> l[1], content |-> l[2],
                        range |-> h]
  IN  (IF final
         THEN {r("ok", i, l, NoRange) : i \in {"null", "id"}, l \in LinkPairs}
         ELSE {r("incomplete", "null", <<"null", "null">>,
                 RangeHeader("bytes=", 0, end))})
      \cup {r("incomplete", "null", <<"null", "null">>, h) :
              h \in {NoRange, RangeHeader("bytes ", 0, end)}
                    \cup (IF start > 0 THEN {RangeHeader("bytes=", 0, start - 1)}
                                       ELSE {})
                    \cup (IF start >= 2 * CHUNK_SIZE
                            THEN {RangeHeader("bytes=", 0, start - CHUNK_SIZE - 1)}
                            ELSE {})}
      \cup {r(k, "null", <<"null", "null">>, NoRange) : k \in {"expired", "error"}}

\* the usual answers: 200/201 carrying the object's id, and 308 with the
\* range up to the last byte sent
Unusual(resp, end) ==
  ~ \/ resp.kind = "ok" /\ resp.id # "null"
    \/ resp.kind = "incomplete" /\ resp.range = RangeHeader("bytes=", 0, end)

\* a chunk catch that treats a 404 like any other failure
RestartAsFailure(j, t) == ThrowResumable(j, "Request failed", t)

\* the chunk catch on a 404:
\* return await this.processResumableUpload(uploadId, options)
RestartSession(j, t) ==
  /\ task' = [task EXCEPT ![j].pc = "session",
                          ![j].depth = Min(@ + 1, MaxSessions),
                          ![j].sessions = Min(@ + 1, MaxSessions)]
  /\ UNCHANGED jobs
  /\ NoClock(t)
  /\ NoEmit

\* the 308 branch: bytesUploaded from the Range header (or advanced by the
\* chunk's length), percentComplete, emit('upload-progress')
Incomplete(j, range, t) ==
  LET fileSize == jobs[j].bytesTotal
      newBytes == NextBytesUploaded(range, task[j].bytesUploaded, task[j].putSize)
  IN  /\ jobs' = [jobs EXCEPT ![j].bytesUploaded = newBytes,
                    ![j].percentComplete = RoundPercent(newBytes, fileSize)]
      /\ task' = [task EXCEPT ![j].pc = "read",
                    ![j].bytesUploaded = newBytes,
                    ![j].ack = IF RangeMatches(range) THEN range.last
                                                     ELSE UnparsedAck]
      /\ NoClock(t)
      /\ EmitProgress(j, jobs'[j])

\* processResumableUpload: the chunk PUT returns 200/201, 308, 404 or fails
PutResponse(j, resp, t) ==
  /\ task[j].pc = "put"
  /\ call' = NoCall
  /\ UNCHANGED <<isInitialized, orch>>
  /\ Fault(Unusual(resp, task[j].putStart + task[j].putSize - 1))
  /\ LET fileSize == jobs[j].bytesTotal
     IN
     CASE resp.kind = "ok" ->
            /\ jobs' = [jobs EXCEPT ![j].fileId = resp.id,
                                    ![j].webViewLink = resp.view,
                                    ![j].webContentLink = resp.content,
                                    ![j].bytesUploaded = fileSize,
                                    ![j].percentComplete = 100]
            /\ task' = [task EXCEPT ![j].pc = "read",
                                    ![j].bytesUploaded = fileSize,
                                    ![j].ack = NoAck]
            /\ NoClock(t)
            /\ NoEmit
       [] resp.kind = "incomplete" -> Incomplete(j, resp.range, t)
       [] resp.kind = "expired" -> RestartSession(j, t)
       [] resp.kind = "error" -> ThrowResumable(j, "Request failed", t)

\* fetchFileLinksByFileId returns: it did nothing (no fileId), files.get failed
\* (caught), or files.get returned links (data.x ?? status.x)
FetchLinksReturn(j, ok, links, t) ==
  /\ task[j].pc \in {"links1", "links2"}
  /\ call' = NoCall
  /\ UNCHANGED <<isInitialized, orch>>
  /\ Fault(~ok)
  /\ LET s == jobs[j]
         got == IF s.fileId = "null" \/ ~ok THEN s
                ELSE [s EXCEPT
                        !.webViewLink = IF links[1] # "null" THEN links[1] ELSE @,
                        !.webContentLink = IF links[2] # "null" THEN links[2] ELSE @]
     IN  AfterLoop(j, got, IF task[j].pc = "links1" THEN "public" ELSE "done", t)

\* processResumableUpload: makeFilePublic returns or throws
PublicReturn(j, ok, t) ==
  /\ task[j].pc = "public"
  /\ call' = NoCall
  /\ UNCHANGED <<isInitialized, orch>>
  /\ Fault(~ok)
  /\ IF ok THEN AfterLoop(j, jobs[j], "links2", t)
           ELSE ThrowResumable(j, "Permission request failed", t)

\* the rethrown error reaches the next catch above: an enclosing
\* processResumableUpload, processUpload's catch, startUpload's .catch
Unwind(j, t) ==
  /\ task[j].pc = "unwind"
  /\ call' = NoCall
  /\ UNCHANGED <<isInitialized, faults, orch>>
  /\ ReadClock(t)
  /\ jobs' = [jobs EXCEPT ![j] = Failed(@, jobs[j].error, t)]
  /\ task' = [task EXCEPT ![j].frames = @ - 1,
                          ![j].pc = IF task[j].frames = 1 THEN "done" ELSE "unwind"]
  /\ EmitError(j, jobs[j].error)

\* the number of upload-canceled events emitted for the jobs in S
RECURSIVE Canceled(_)
Canceled(S) ==
  IF S = {} THEN 0
  ELSE LET j == CHOOSE x \in S : TRUE
       IN  emitted[j].canceled + Canceled(S \ {j})

\* cancelUpload(uploadId)
CancelUpload(id, t) ==
  /\ UNCHANGED <<task, isInitialized, faults, orch>>
  /\ IF CancelRefused(jobs[id].status)
       THEN /\ call' = [op |-> "cancelUpload", id |-> id, ret |-> "false"]
            /\ UNCHANGED jobs
            /\ NoClock(t)
            /\ NoEmit
       ELSE /\ Canceled(JobIds) < MaxCancels
            /\ call' = [op |-> "cancelUpload", id |-> id, ret |-> "true"]
            /\ ReadClock(t)
            /\ jobs' = [jobs EXCEPT ![id].status = "canceled", ![id].endTime = t]
            /\ EmitCanceled(id, jobs'[id])

(***************************************************************************)
(* Snapshots.  A caller reads a job with getUploadStatus or                *)
(* getAllUploadStatuses, or keeps the object an event carried, and may     *)
(* write to the object it holds.  A write reaches activeUploads only when  *)
(* the object held is the stored one.                                      *)
(***************************************************************************)
\* getUploadStatus(uploadId): status ? { ...status } : null
GetUploadStatus(uploadId) ==
  /\ held' = IF jobs[uploadId].status = "absent" THEN NoSnapshot
             ELSE Spread(uploadId, "getUploadStatus")
  /\ UNCHANGED <<jobs, task, isInitialized, now, emitted, lastProgress, call,
                 faults, triggers, routines, orch>>

\* getAllUploadStatuses(): the caller keeps the element for uploadId
GetAllUploadStatuses(uploadId) ==
  /\ jobs[uploadId].status # "absent"
  /\ held' = Spread(uploadId, "getAllUploadStatuses")
  /\ UNCHANGED <<jobs, task, isInitialized, now, emitted, lastProgress, call,
                 faults, triggers, routines, orch>>

\* the caller assigns to a field of the object it holds
MutateSnapshot ==
  /\ held.via # "none"
  /\ ~held.mutated
  /\ held' = [held EXCEPT !.mutated = TRUE]
  /\ jobs' = IF held.stored
               THEN [jobs EXCEPT ![held.id].status = "tampered"]
               ELSE jobs
  /\ UNCHANGED <<task, isInitialized, now, emitted, lastProgress, call,
                 faults, triggers, routines, orch>>

(***************************************************************************)
(* Orchestrator: startTrigger and executeFlow                              *)
(***************************************************************************)

\* the catch blocks of executeFlow and of startTrigger's .catch
FlowFailed(status, message) ==
  [status EXCEPT !.completed = TRUE, !.currentStep = "failed", !.error = message]

\* a throw inside executeFlow: both catch blocks run before any other callback
\* (elapsedTime is a local of waitForVideoCompletion, gone when it settles)
FlowThrow(status, message) ==
  /\ triggers' = [triggers EXCEPT ![flow.id] = FlowFailed(status, message)]
  /\ flow' = [flow EXCEPT !.pc = "done", !.elapsedTime = 0]

\* startTrigger(config), with executeFlow run up to its first await
\* (ensureGSMInitialized)
StartTrigger(phoneNumber, sendEarlyNotification, t) ==
  /\ UNCHANGED held
  /\ flow.pc = "idle"
  /\ ReadClock(t)
  /\ call' = [op |-> "startTrigger", id |-> t, ret |-> "ok"]
  /\ triggers' = [triggers EXCEPT ![t] = InitialTrigger]
  /\ flow' = [pc |-> "gsm", id |-> t, phoneNumber |-> phoneNumber,
              sendEarlyNotification |-> sendEarlyNotification,
              elapsedTime |-> 0]
  /\ UNCHANGED <<jobs, task, isInitialized, emitted, lastProgress, faults,
                 routines, gsmInitialized, sms>>

\* executeFlow: ensureGSMInitialized returns (its result is not used); then
\* updateLocationData awaits GSMService.getLocation
GsmReturn(ok) ==
  /\ UNCHANGED held
  /\ flow.pc = "gsm"
  /\ call' = NoCall
  /\ Fault(~ok)
  /\ gsmInitialized' = (gsmInitialized \/ ok)
  /\ flow' = [flow EXCEPT !.pc = "location"]
  /\ UNCHANGED <<jobs, task, isInitialized, now, emitted, lastProgress,
                 triggers, routines, sms>>

\* a recordVideo that starts the capture without recording the stage
RecordVideoStageUnwritten(currentStep) == currentStep

\* recordVideo: status.currentStep = 'recording', before VideoService.startCapture
RecordVideoStage(currentStep) == "recording"

\* executeFlow: getLocation returns; recordVideo sets the stage, starts the
\* capture and waits for it with a timer
FlowLocationReturn(location, t) ==
  /\ UNCHANGED held
  /\ flow.pc = "location"
  /\ call' = NoCall
  /\ Fault(location = "unavailable")
  /\ ReadClock(t)
  /\ triggers' = [triggers EXCEPT ![flow.id].locationData = location,
                                  ![flow.id].currentStep = RecordVideoStage(@),
                                  ![flow.id].videoStatus = "running"]
  /\ flow' = [flow EXCEPT !.pc = "recording", !.elapsedTime = 0]
  /\ UNCHANGED <<jobs, task, isInitialized, emitted, lastProgress, routines,
                 gsmInitialized, sms>>

\* a wait that gives up only after twice maxWaitTime
TimedOutAfterTwiceTheWait(elapsedTime) == elapsedTime >= 2 * maxWaitTime

\* waitForVideoCompletion: if (elapsedTime >= maxWaitTime) reject(Timeout ...)
TimedOut(elapsedTime) == elapsedTime >= maxWaitTime

\* a recordVideo that does not look at the capture's error
RecordingErrorIgnored(answer) == FALSE

\* recordVideo: if (updatedVideoStatus.error) throw ('error': the capture has
\* completed with its error set)
RecordingError(answer) == answer = "error"

\* what VideoService.getStatus answers to a poll
CaptureAnswers == {"running", "completed", "error", "missing"}

\* waitForVideoCompletion: checkStatus runs on the timer; once the capture has
\* completed, recordVideo reads its status and startUploadToGoogleDrive runs up
\* to `await GoogleDriveService.startUpload(videoPath)`
PollVideo(answer, exists) ==
  /\ UNCHANGED held
  /\ flow.pc = "recording"
  /\ call' = NoCall
  /\ Fault(answer \in {"error", "missing"} \/ (answer = "completed" /\ ~exists))
  /\ LET status == triggers[flow.id]
         elapsedTime == flow.elapsedTime + checkInterval
     IN  CASE answer = "missing" -> FlowThrow(status, "Video status not found")
           [] answer = "running" ->
                IF TimedOut(elapsedTime)
                  THEN FlowThrow(status, "Timeout waiting for video recording")
                  ELSE /\ flow' = [flow EXCEPT !.elapsedTime = elapsedTime]
                       /\ UNCHANGED triggers
           [] answer \in {"completed", "error"} ->
                LET uploading == [status EXCEPT !.videoStatus = "completed",
                                                !.currentStep = "uploading"]
                IN  IF RecordingError(answer)
                      THEN FlowThrow(status, "Video recording failed")
                    ELSE IF ~exists
                      THEN FlowThrow(uploading, "Video file not found")
                      ELSE /\ triggers' = [triggers EXCEPT ![flow.id] = uploading]
                           /\ flow' = [flow EXCEPT !.pc = "startUpload",
                                                    !.elapsedTime = 0]
  /\ UNCHANGED <<jobs, task, isInitialized, now, emitted, lastProgress,
                 routines, gsmInitialized, sms>>

\* a continuation that records the initial upload status but not the id
StoreUploadStatusOnly(status, j) ==
  [status EXCEPT !.uploadStatus = jobs'[j]]

\* status.uploadId = uploadId; status.uploadStatus = getUploadStatus(uploadId):
\* the continuation of "await GoogleDriveService.startUpload(videoPath)", which
\* runs as a microtask of the turn in which startUpload returned, before any
\* response to the requests of processUpload can be handled
StoreUploadId(status, j) ==
  [status EXCEPT !.uploadId = j, !.uploadStatus = jobs'[j]]

\* startUploadToGoogleDrive: GoogleDriveService.startUpload returns the upload
\* id or throws (or is still awaiting initClient); executeFlow then calls
\* sendEarlyNotification if configured
AfterStartUpload(j) ==
  /\ UNCHANGED <<gsmInitialized, sms>>
  /\ LET status == triggers[flow.id]
         started == StoreUploadId(status, j)
     IN  IF call'.ret = "pending"
           THEN UNCHANGED <<triggers, flow, routines>>
         ELSE IF call'.ret # "ok"
           THEN FlowThrow(status, call'.ret) /\ UNCHANGED routines
         ELSE IF flow.sendEarlyNotification
           THEN /\ triggers' = [triggers EXCEPT ![flow.id] = started]
                /\ routines' = SendEarlyNotification(routines, started, flow.id, TRUE)
                /\ flow' = [flow EXCEPT !.pc =
                              IF started.earlyNotificationSent THEN "done" ELSE "early"]
         ELSE /\ triggers' = [triggers EXCEPT ![flow.id] = started]
              /\ flow' = [flow EXCEPT !.pc = "done"]
              /\ UNCHANGED routines

\* startUploadToGoogleDrive calls GoogleDriveService.startUpload
FlowStartUpload(j, exists, fileSize) ==
  /\ UNCHANGED held
  /\ flow.pc = "startUpload"
  /\ StartUploadEngine(j, exists, fileSize)
  /\ AfterStartUpload(j)

\* initClient returns to the startUpload that startUploadToGoogleDrive awaits
FlowInitReturn(j, authOk, exists, fileSize) ==
  /\ UNCHANGED held
  /\ flow.pc = "startUpload"
  /\ InitReturnEngine(j, authOk, exists, fileSize)
  /\ AfterStartUpload(j)

\* A notification routine resumes from its await: of updateLocationData
\* (pc "location"), of ensureGSMInitialized (pc "gsm") or of
\* GSMService.sendNewSMS (pc "send").  A throw goes to the logging .catch of
\* the handler that started the routine, or, if executeFlow awaits the routine,
\* to the catch blocks of executeFlow and startTrigger.
RoutineResume(r, location, ok) ==
  /\ UNCHANGED held
  /\ BagIn(r, routines)
  /\ call' = NoCall
  /\ Fault(IF r.pc = "location" THEN location = "unavailable" ELSE ~ok)
  /\ UNCHANGED <<jobs, task, isInitialized, now, emitted, lastProgress>>
  /\ LET id == r.id
         rest == routines (-) SetToBag({r})
         Throw(status, message) ==
           /\ routines' = rest
           /\ triggers' = [triggers EXCEPT ![id] =
                IF r.awaited THEN FlowFailed(status, message) ELSE status]
           /\ flow' = IF r.awaited THEN [flow EXCEPT !.pc = "done"] ELSE flow
         Return(status) ==
           /\ routines' = rest
           /\ triggers' = [triggers EXCEPT ![id] = status]
           /\ flow' = IF r.awaited THEN [flow EXCEPT !.pc = "done"] ELSE flow
         Await(status, pc) ==
           /\ routines' = rest (+) SetToBag({[r EXCEPT !.pc = pc]})
           /\ triggers' = [triggers EXCEPT ![id] = status]
           /\ UNCHANGED flow
     IN  CASE r.pc = "location" ->
                LET located == [triggers[id] EXCEPT !.locationData = location]
                    status == IF r.kind \in {"early", "final"}
                                THEN [located EXCEPT !.currentStep = "notifying"]
                                ELSE located
                    phoneNumber ==
                      IF r.kind = "final" /\ r.phoneNumber # ""
                        THEN r.phoneNumber
                        ELSE ExtractConfigFromStatus(status).phoneNumber
                IN  /\ UNCHANGED <<gsmInitialized, sms>>
                    /\ IF phoneNumber = ""
                         THEN Throw(status, "No phone number found")
                         ELSE Await(status, "gsm")
           [] r.pc = "gsm" ->
                LET gsmReady == gsmInitialized \/ ok
                IN  /\ gsmInitialized' = gsmReady
                    /\ IF ~gsmReady
                         THEN /\ UNCHANGED sms
                              /\ Throw(triggers[id], "GSM modem is not initialized")
                         ELSE /\ sms' = [sms EXCEPT ![r.kind] = @ + 1]
                              /\ Await(triggers[id], "send")
           [] r.pc = "send" ->
                /\ UNCHANGED <<gsmInitialized, sms>>
                /\ Return([triggers[id] EXCEPT
                     !.smsStatus = IF ok THEN "true" ELSE "false",
                     !.earlyNotificationSent =
                        IF r.kind \in {"early", "error"} THEN TRUE ELSE @])

(***************************************************************************)
(* The Transfer Engine driven through its API                              *)
(***************************************************************************)
Init ==
  /\ jobs = [j \in JobIds |-> AbsentJob]
  /\ task = [j \in JobIds |-> IdleTask]
  /\ isInitialized = FALSE
  /\ now = 0
  /\ emitted = [j \in JobIds |-> NoEvents]
  /\ lastProgress = [j \in JobIds |-> -1]
  /\ call = NoCall
  /\ faults = 0
  /\ triggers = [id \in TriggerIds |-> AbsentTrigger]
  /\ flow = IdleFlow
  /\ routines = EmptyBag
  /\ gsmInitialized = FALSE
  /\ sms = NoSms
  /\ held = NoSnapshot

Times == 0..MaxTime

Next ==
  \/ \E j \in JobIds, exists \in BOOLEAN, size \in FileSizes :
       StartUpload(j, exists, size)
  \/ \E j \in JobIds, authOk \in BOOLEAN, exists \in BOOLEAN, size \in FileSizes :
       InitReturn(j, authOk, exists, size)
  \/ \E j \in JobIds, ok \in BOOLEAN, id \in {"null", "id"}, l \in LinkPairs,
        t \in Times : CreateResponse(j, ok, id, l[1], l[2], t)
  \/ \E j \in JobIds, ok \in BOOLEAN, t \in Times : PublicSimpleReturn(j, ok, t)
  \/ \E j \in JobIds, ok \in BOOLEAN, t \in Times : SessionResponse(j, ok, t)
  \/ \E j \in JobIds, t \in Times : ChunkRead(j, t)
  \/ \E j \in JobIds, t \in Times :
       \E resp \in ChunkResponses(task[j].putStart, task[j].putSize, jobs[j].bytesTotal) :
         PutResponse(j, resp, t)
  \/ \E j \in JobIds, ok \in BOOLEAN, l \in LinkPairs, t \in Times :
       FetchLinksReturn(j, ok, l, t)
  \/ \E j \in JobIds, ok \in BOOLEAN, t \in Times : PublicReturn(j, ok, t)
  \/ \E j \in JobIds, t \in Times : Unwind(j, t)
  \/ \E id \in JobIds, t \in Times : CancelUpload(id, t)
  \/ \E id \in JobIds : GetUploadStatus(id)
  \/ \E id \in JobIds : GetAllUploadStatuses(id)
  \/ MutateSnapshot

Spec == Init /\ [][Next]_vars

(***************************************************************************)
(* The Orchestrator driving the Transfer Engine: one trigger, whose upload *)
(* is the engine's job and is not canceled (cancelUpload is explored under *)
(* Spec)                                                                   *)
(***************************************************************************)
NextTrigger ==
  \/ \E p \in PhoneNumbers, early \in BOOLEAN, t \in Times : StartTrigger(p, early, t)
  \/ \E ok \in BOOLEAN : GsmReturn(ok)
  \/ \E l \in Locations, t \in Times : FlowLocationReturn(l, t)
  \/ \E a \in CaptureAnswers, exists \in BOOLEAN : PollVideo(a, exists)
  \/ \E j \in JobIds, exists \in BOOLEAN, size \in FileSizes :
       FlowStartUpload(j, exists, size)
  \/ \E j \in JobIds, authOk \in BOOLEAN, exists \in BOOLEAN, size \in FileSizes :
       FlowInitReturn(j, authOk, exists, size)
  \/ \E r \in BagToSet(routines), l \in Locations, ok \in BOOLEAN :
       RoutineResume(r, l, ok)
  \/ \E j \in JobIds, ok \in BOOLEAN, id \in {"null", "id"}, l \in LinkPairs,
        t \in Times : CreateResponse(j, ok, id, l[1], l[2], t)
  \/ \E j \in JobIds, ok \in BOOLEAN, t \in Times : PublicSimpleReturn(j, ok, t)
  \/ \E j \in JobIds, ok \in BOOLEAN, t \in Times : SessionResponse(j, ok, t)
  \/ \E j \in JobIds, t \in Times : ChunkRead(j, t)
  \/ \E j \in JobIds, t \in Times :
       \E resp \in ChunkResponses(task[j].putStart, task[j].putSize, jobs[j].bytesTotal) :
         PutResponse(j, resp, t)
  \/ \E j \in JobIds, ok \in BOOLEAN, l \in LinkPairs, t \in Times :
       FetchLinksReturn(j, ok, l, t)
  \/ \E j \in JobIds, ok \in BOOLEAN, t \in Times : PublicReturn(j, ok, t)
  \/ \E j \in JobIds, t \in Times : Unwind(j, t)

SpecTrigger == Init /\ [][NextTrigger]_vars

(***************************************************************************)
(* Properties of the Transfer Engine                                       *)
(***************************************************************************)
Created(j) == jobs[j].status # "absent"
CancelStep(id) == call'.op = "cancelUpload" /\ call'.id = id
EngineUnchanged == jobs' = jobs /\ emitted' = emitted /\ lastProgress' = lastProgress

\* C1: once a job's status is completed, failed or canceled, no later step
\* changes its status.
C1_TerminalStatusIsFinal ==
  [][\A j \in JobIds :
       jobs[j].status \in TerminalStatus => jobs'[j].status = jobs[j].status]_vars

\* C2: cancelUpload on an uploading job sets it to canceled and returns true;
\* on an unknown id or a completed or failed job it returns false, emits no
\* event and leaves every field of every job unchanged.
C2_CancelContract ==
  [][\A id \in JobIds :
       CancelStep(id) =>
         /\ jobs[id].status = "uploading" =>
              call'.ret = "true" /\ jobs'[id].status = "canceled"
         /\ jobs[id].status \in {"absent", "completed", "failed"} =>
              call'.ret = "false" /\ EngineUnchanged]_vars

\* cancelUpload has just been refused for a job that had completed or failed
C2_Witness ==
  /\ call.op = "cancelUpload" /\ call.ret = "false"
  /\ jobs[call.id].status \in {"completed", "failed"}

\* C3: a second cancelUpload on a job the first call moved to canceled returns
\* false, leaves the job unchanged and emits no second upload-canceled event.
C3_SecondCancelRefused ==
  [][\A id \in JobIds :
       CancelStep(id) /\ jobs[id].status = "canceled" =>
         call'.ret = "false" /\ EngineUnchanged]_vars

\* C4: for a resumable job that is not terminal, neither the stored
\* bytesUploaded nor the bytesUploaded of successive upload-progress events
\* ever decreases.
C4_BytesNeverDecrease ==
  [][\A j \in JobIds :
       Created(j) /\ UseResumable(jobs[j].bytesTotal)
         /\ jobs[j].status \notin TerminalStatus =>
           /\ jobs'[j].bytesUploaded >= jobs[j].bytesUploaded
           /\ emitted'[j].progress > emitted[j].progress /\ lastProgress[j] >= 0 =>
                lastProgress'[j] >= lastProgress[j]]_vars

\* C5: a resumable job's bytesUploaded equals bytesTotal exactly when its
\* status is completed.
C5_FullExactlyWhenCompleted ==
  \A j \in JobIds :
    Created(j) /\ UseResumable(jobs[j].bytesTotal) =>
      (jobs[j].status = "completed" <=> jobs[j].bytesUploaded = jobs[j].bytesTotal)

\* the background task of job j has run to its end
Finished(j) == task[j].pc = "done"

\* the simple path: one files.create request and no resumable session
SimplePathTaken(j) == task[j].creates = 1 /\ task[j].sessions = 0
ResumablePathTaken(j) == task[j].creates = 0 /\ task[j].sessions >= 1

C7_NextChunkStart ==
  [][\A j \in JobIds :
       task[j].pc = "read" /\ task'[j].pc = "put" =>
         /\ task[j].ack >= 0 => task'[j].putStart = task[j].ack + 1
         /\ task[j].ack = UnparsedAck =>
              task'[j].putStart = task[j].putStart + task[j].putSize]_vars

\* the second chunk write follows a 308 with Range bytes=0-1048575
C7_Witness ==
  \E j \in JobIds :
    task[j].pc = "put" /\ task[j].ack = 1048575 /\ task[j].putStart = 1048576

(***************************************************************************)
(* Properties of the Orchestrator                                          *)
(***************************************************************************)
Started(id) == triggers[id].currentStep # "absent"

\* the trigger's flow, its upload and every notification routine have run to
\* their end, every collaborator having succeeded and answered as usual
SettledAfterSuccess(id) ==
  /\ Started(id) /\ flow.id = id /\ flow.pc = "done"
  /\ routines = EmptyBag
  /\ faults = 0
  /\ triggers[id].uploadId \in JobIds
  /\ Finished(triggers[id].uploadId)
  /\ jobs[triggers[id].uploadId].status = "completed"
  /\ jobs[triggers[id].uploadId].webViewLink # "null"

\* C8: with capture, transfer and notification all succeeding and
\* sendEarlyNotification = false, the trigger ends in stage completed and
\* exactly one notification send is invoked, the one carrying the view link.
C8_CompletedWithOneLinkNotification ==
  \A id \in TriggerIds :
    SettledAfterSuccess(id) /\ ~flow.sendEarlyNotification =>
      /\ triggers[id].currentStep = "completed"
      /\ sms = [NoSms EXCEPT !.final = 1]

\* C9: with sendEarlyNotification = true and a transfer whose progress
\* crosses 10% before it completes (a resumable upload: its first progress
\* event reports 20%), exactly one notification send is invoked in total, the
\* early one.
C9_ExactlyOneEarlyNotification ==
  \A id \in TriggerIds :
    /\ SettledAfterSuccess(id) /\ flow.sendEarlyNotification
    /\ UseResumable(jobs[triggers[id].uploadId].bytesTotal)
    /\ emitted[triggers[id].uploadId].progress >= 1
    => sms = [NoSms EXCEPT !.early = 1]

StageRank(step) ==
  CASE step = "absent" -> 0
    [] step = "initialized" -> 1
    [] step = "recording" -> 2
    [] step = "uploading" -> 3
    [] step = "notifying" -> 4
    [] step = "completed" -> 5
    [] step = "failed" -> 6

\* C10: a trigger's stage only moves forward along initialized, recording,
\* uploading, notifying, completed, or jumps to failed; once it is completed
\* or failed it never changes again.
C10_StageOnlyAdvances ==
  [][\A id \in TriggerIds :
       Started(id) =>
         /\ triggers[id].currentStep \in {"completed", "failed"} =>
              triggers'[id].currentStep = triggers[id].currentStep
         /\ \/ triggers'[id].currentStep = "failed"
            \/ StageRank(triggers'[id].currentStep)
                 >= StageRank(triggers[id].currentStep)]_vars

\* the trigger's recording wait ended in the timeout error
TimeoutError(id) == triggers[id].error = "Timeout waiting for video recording"

\* C11: a capture that never reports completion fails the trigger with the
\* timeout error by the 121st poll at the latest: the wait never survives
\* more than 120 polls, a poll that finds the capture still running after
\* maxWaitTime ends the wait in stage failed with the timeout error, and a
\* trigger that timed out has no upload.
C11_CaptureTimeout ==
  [][/\ flow.pc = "recording" =>
          /\ flow.elapsedTime <= maxWaitTime
          /\ flow'.pc = "recording" => flow'.elapsedTime <= maxWaitTime
          /\ /\ flow.elapsedTime + checkInterval >= maxWaitTime
             /\ flow' # flow /\ faults' = faults
             /\ triggers'[flow.id].videoStatus # "completed"
             => /\ flow'.pc = "done"
                /\ triggers'[flow.id].currentStep = "failed"
                /\ TimeoutError(flow.id)'
     /\ \A id \in TriggerIds :
          TimeoutError(id)' =>
            /\ triggers'[id].currentStep = "failed"
            /\ triggers'[id].uploadId = 0
            /\ \A j \in JobIds : jobs'[j].status = "absent"]_vars

\* the 120th poll found the capture still running and the trigger failed
C11_Witness ==
  \E id \in TriggerIds :
    /\ TimeoutError(id) /\ triggers[id].currentStep = "failed"
    /\ triggers[id].videoStatus = "running" /\ flow.pc = "done"

\* C12: in every state of every job, percentComplete is
\* floor(bytesUploaded * 100 / bytesTotal) unless the job is completed, and it
\* is 100 only if the job is completed.
C12_PercentIsFloor ==
  \A j \in JobIds :
    Created(j) =>
      /\ jobs[j].status # "completed" /\ jobs[j].bytesTotal > 0 =>
           jobs[j].percentComplete =
             (jobs[j].bytesUploaded * 100) \div jobs[j].bytesTotal
      /\ jobs[j].percentComplete = 100 => jobs[j].status = "completed"

\* C13: a chunk write that fails with an error other than session expiry
\* is retried, and the job is marked failed only after the 5th failed
\* attempt for that chunk.
C13_ChunkRetriedFiveTimes ==
  [][\A j \in JobIds :
       /\ task[j].pc = "put" /\ task'[j].pc = "unwind"
       /\ jobs'[j].status = "failed"
       => task[j].attempts >= 5]_vars

\* the step left no job, no background task and no event for id j
NoTraceOfStart(j) ==
  /\ jobs' = jobs /\ jobs'[j].status = "absent"
  /\ task'[j] = IdleTask
  /\ emitted' = emitted /\ lastProgress' = lastProgress

C15_StartReturnsWithoutWaiting ==
  [][\A j \in JobIds :
       call'.op = "startUpload" /\ call'.id = j /\ call'.ret = "ok"
         /\ jobs[j].status = "absent"
         => task[j].pc # "init"]_vars

EarlyNotificationInvoked(id) ==
  \/ sms.early > 0
  \/ triggers[id].earlyNotificationSent
  \/ \E r \in BagToSet(routines) : r.kind = "early" /\ r.id = id

C17_EarlyNotificationBeforeUpload ==
  [][/\ flow.pc = "startUpload" /\ flow.sendEarlyNotification
     /\ call'.op = "startUpload"
     => EarlyNotificationInvoked(flow.id)]_vars

\* C18: once cancelUpload has returned true for a resumable job (it has
\* emitted upload-canceled), no further chunk write is issued for the job
\* and the job never reports uploading or completed, also when the cancel
\* arrived while a session was being initiated.
CancelAccepted(j) == emitted[j].canceled > 0

C18_CancelStopsResumableUpload ==
  [][\A j \in JobIds :
       CancelAccepted(j) /\ UseResumable(jobs[j].bytesTotal)
         => /\ ~(task[j].pc # "put" /\ task'[j].pc = "put")
            /\ jobs'[j].status \notin {"uploading", "completed"}]_vars

\* C19: a chunk write answered 404 (session expired) does not fail the job:
\* the step changes no job and emits nothing and a new session is initiated,
\* whose stream restarts at offset 0; a job that completes after a restart
\* has emitted exactly one upload-complete and no upload-error.
SessionExpired(j) ==
  \E t \in Times :
    \E resp \in ChunkResponses(task[j].putStart, task[j].putSize, jobs[j].bytesTotal) :
      resp.kind = "expired" /\ PutResponse(j, resp, t)

C19_ExpiredSessionRestarts ==
  [][\A j \in JobIds :
       /\ SessionExpired(j)
            => /\ jobs' = jobs /\ emitted' = emitted
               /\ task'[j].pc = "session"
       /\ task[j].sessions >= 2 /\ task[j].pc = "session" /\ task'[j].pc = "read"
            => task'[j].bytesUploaded = 0 /\ task'[j].chunkIdx = 0
       /\ task'[j].sessions >= 2 /\ jobs'[j].status = "completed"
            => emitted'[j].complete = 1 /\ emitted'[j].error = 0]_vars

C19_Witness ==
  \E j \in JobIds :
    /\ task[j].sessions = 2 /\ jobs[j].status = "completed"
    /\ emitted[j].complete = 1 /\ emitted[j].error = 0

\* C20: for a trigger started with sendEarlyNotification = false no
\* provisional notification is attempted: no early notification routine of
\* the trigger runs and no early SMS is sent.
C20_NoEarlyNotificationWhenDisabled ==
  flow.pc # "idle" /\ ~flow.sendEarlyNotification
    => /\ sms.early = 0
       /\ \A r \in BagToSet(routines) : ~(r.kind = "early" /\ r.id = flow.id)

\* the step starts a notification routine of the kind for the trigger
RoutineStarted(kind, id) ==
  \E awaited \in BOOLEAN, p \in PhoneNumbers \cup {""} :
    LET r == Routine(kind, id, awaited, p)
    IN  CopiesIn(r, routines') > CopiesIn(r, routines)

\* C21: an early notification is attempted for a trigger only once a progress
\* event of its tracked upload has reported percentComplete >= 10: a step
\* that starts the early routine leaves the trigger with a progress snapshot
\* of at least 10%.
C21_EarlyOnlyAfterTenPercent ==
  [][\A id \in TriggerIds :
       RoutineStarted("early", id)
         => /\ emitted'[triggers'[id].uploadId].progress > 0
            /\ triggers'[id].uploadStatus.percentComplete >= 10]_vars

Redelivered(j, type) ==
  emitted[j][type] >= 1 /\ emitted'[j][type] > emitted[j][type]

C23_DuplicateEventsIgnored ==
  [][\A j \in JobIds :
       (Redelivered(j, "complete") \/ Redelivered(j, "error")) /\ Owners(j) # {}
         => /\ ~RoutineStarted("final", Owner(j))
            /\ ~RoutineStarted("error", Owner(j))
            /\ triggers'[Owner(j)].currentStep = triggers[Owner(j)].currentStep]_vars

\* C24: an upload-complete event that finds the trigger's early-sent flag
\* true makes the trigger's stage completed, with its completed flag set, and
\* starts no notification routine.
Delivered(j, type) == emitted'[j][type] > emitted[j][type]

C24_EarlySentThenCompleted ==
  [][\A j \in JobIds :
       /\ Delivered(j, "complete") /\ Owners(j) # {}
       /\ triggers[Owner(j)].earlyNotificationSent
       => /\ triggers'[Owner(j)].currentStep = "completed"
          /\ triggers'[Owner(j)].completed
          /\ \A kind \in {"early", "final", "error"} :
               ~RoutineStarted(kind, Owner(j))]_vars

\* no trigger's early-sent flag is ever set: every notification routine
\* stops at its phone number check, before its send
EarlySentNeverSet ==
  \A id \in TriggerIds : ~triggers[id].earlyNotificationSent

\* C25: after upload-complete for a trigger that has sent no early
\* notification the trigger ends in stage completed, however the final
\* notification fares: once executeFlow has returned and no notification
\* routine is left running, the trigger's stage is completed.
Quiescent == flow.pc = "done" /\ routines = EmptyBag

C25_CompletedWhateverTheSend ==
  \A j \in JobIds :
    /\ emitted[j].complete >= 1 /\ Owners(j) # {}
    /\ ~triggers[Owner(j)].earlyNotificationSent
    /\ Quiescent
    => triggers[Owner(j)].currentStep = "completed"

\* C26: after an upload-error event for its tracked job a trigger is failed
\* with the transfer's error as its error and stays failed; the event starts
\* an error notification only if the early-sent flag was false, and no final
\* (link-bearing) message is sent for the trigger.
C26_UploadErrorFailsTrigger ==
  [][\A j \in JobIds :
       /\ Delivered(j, "error") /\ Owners(j) # {}
            => /\ triggers'[Owner(j)].currentStep = "failed"
               /\ triggers'[Owner(j)].completed
               /\ triggers'[Owner(j)].error = "Upload error: " \o jobs'[j].error
               /\ RoutineStarted("error", Owner(j))
                    => ~triggers[Owner(j)].earlyNotificationSent
       /\ emitted[j].error >= 1 /\ Owners(j) # {}
            => /\ triggers'[Owner(j)].currentStep = "failed"
               /\ sms'.final = sms.final]_vars

\* C27: when the capture reports an error for the trigger's recording the
\* trigger becomes failed with that error, stays so, and startUpload is never
\* called for it; startUpload is called only after a recording that completed
\* without error.
CaptureError == "Video recording failed"

C27_CaptureErrorFailsTrigger ==
  [][/\ (\E exists \in BOOLEAN : PollVideo("error", exists))
          => /\ triggers'[flow.id].currentStep = "failed"
             /\ triggers'[flow.id].error = CaptureError
             /\ flow'.pc = "done"
     /\ \A id \in TriggerIds :
          triggers[id].error = CaptureError
            => /\ triggers'[id].currentStep = "failed"
               /\ triggers'[id].error = CaptureError
               /\ call'.op # "startUpload"
               /\ \A j \in JobIds : jobs'[j].status = "absent"
     /\ call'.op = "startUpload"
          => /\ triggers[flow.id].videoStatus = "completed"
             /\ triggers[flow.id].error = "null"]_vars

C27_Witness ==
  \E id \in TriggerIds :
    /\ triggers[id].currentStep = "failed" /\ triggers[id].error = CaptureError
    /\ triggers[id].completed /\ flow.pc = "done"
    /\ \A j \in JobIds : jobs[j].status = "absent"

\* Progress of a trigger when the location collaborator may stay silent:
\* every callback that is ready runs and every other collaborator answers,
\* but the answer to executeFlow's GSMService.getLocation() may never come
\* (the mmcli command is run without a timeout).
StepWhileNotLocating == NextTrigger /\ flow.pc # "location"

SpecTriggerLive ==
  Init /\ [][NextTrigger]_vars /\ WF_vars(StepWhileNotLocating)

\* C28: the location collaborator never blocks or fails a trigger, whether
\* it fails, has no fix or does not answer: a trigger that waits for the
\* location goes on to its recording stage.
C28_LocationNeverBlocks ==
  (flow.pc = "location") ~> (flow.pc = "recording")

(***************************************************************************)
(* The event handlers on a table of several triggers.  Triggers run        *)
(* concurrently, each tracking at most one upload, and no two the same     *)
(* one; the engine's events arrive for the uploads 1 and 2.                *)
(***************************************************************************)
UploadIds == {1, 2}

\* a trigger before startUploadToGoogleDrive has stored an upload id
UntrackedTriggers ==
  {InitialTrigger,
   [InitialTrigger EXCEPT !.currentStep = "recording", !.videoStatus = "running",
                          !.locationData = "available"]}

\* a trigger whose upload j has started, in a stage it can then be in
TrackedTriggers(j) ==
  {[InitialTrigger EXCEPT
      !.currentStep = step, !.completed = (step \in {"completed", "failed"}),
      !.videoStatus = "completed", !.locationData = "available",
      !.uploadId = j,
      !.uploadStatus = [InitialStatus(RESUMABLE_THRESHOLD + 1)
                          EXCEPT !.status = "uploading"]] :
     step \in {"uploading", "notifying", "completed", "failed"}}

TriggerTables ==
  {tb \in [TriggerIds -> {AbsentTrigger} \cup UntrackedTriggers
                           \cup UNION {TrackedTriggers(j) : j \in UploadIds}] :
     \A a, b \in TriggerIds :
       a # b /\ tb[a].uploadId # 0 => tb[a].uploadId # tb[b].uploadId}

InitHandlers ==
  /\ triggers \in TriggerTables
  /\ jobs = [j \in JobIds |-> AbsentJob]
  /\ task = [j \in JobIds |-> IdleTask]
  /\ isInitialized = TRUE
  /\ now = 0
  /\ emitted = [j \in JobIds |-> NoEvents]
  /\ lastProgress = [j \in JobIds |-> -1]
  /\ call = NoCall
  /\ faults = 0
  /\ flow = IdleFlow
  /\ routines = EmptyBag
  /\ gsmInitialized = FALSE
  /\ sms = NoSms
  /\ held = NoSnapshot

\* the status objects the events carry
ProgressPayloads ==
  {[InitialStatus(RESUMABLE_THRESHOLD + 1) EXCEPT
      !.status = "uploading", !.bytesUploaded = b,
      !.percentComplete = RoundPercent(b, RESUMABLE_THRESHOLD + 1)] :
     b \in {0, CHUNK_SIZE}}

CompletePayloads ==
  {[InitialStatus(RESUMABLE_THRESHOLD + 1) EXCEPT
      !.status = "completed", !.bytesUploaded = RESUMABLE_THRESHOLD + 1,
      !.percentComplete = 100, !.endTime = 0, !.fileId = "id",
      !.webViewLink = l[1], !.webContentLink = l[2]] : l \in LinkPairs}

HandlerFrame ==
  UNCHANGED <<jobs, task, isInitialized, now, emitted, lastProgress, call,
              faults, orch, held>>

\* emit('upload-progress', uploadId, status) reaches the listener
DeliverProgress(uploadId, uploadStatus) ==
  /\ BagCardinality(routines) < MaxRoutines
  /\ HandleUploadProgress(uploadId, uploadStatus)
  /\ HandlerFrame

\* emit('upload-complete', uploadId, status) reaches the listener
DeliverComplete(uploadId, uploadStatus) ==
  /\ BagCardinality(routines) < MaxRoutines
  /\ HandleUploadComplete(uploadId, uploadStatus)
  /\ HandlerFrame

\* emit('upload-error', uploadId, message) reaches the listener
DeliverError(uploadId, error) ==
  /\ BagCardinality(routines) < MaxRoutines
  /\ HandleUploadError(uploadId, error)
  /\ HandlerFrame

NextHandlers ==
  \/ \E j \in UploadIds, st \in ProgressPayloads : DeliverProgress(j, st)
  \/ \E j \in UploadIds, st \in CompletePayloads : DeliverComplete(j, st)
  \/ \E j \in UploadIds : DeliverError(j, "Request failed")

SpecHandlers == InitHandlers /\ [][NextHandlers]_vars

\* C29: an upload-progress, upload-complete or upload-error event for job j
\* changes only the trigger whose uploadId is j and starts routines only for
\* it; an event for a job no trigger tracks changes no trigger and starts no
\* routine.
DeliveredTo(j) ==
  \/ \E st \in ProgressPayloads : DeliverProgress(j, st)
  \/ \E st \in CompletePayloads : DeliverComplete(j, st)
  \/ DeliverError(j, "Request failed")

C29_EventsReachOnlyTheirTrigger ==
  [][\A j \in UploadIds :
       DeliveredTo(j)
         => /\ \A id \in TriggerIds :
                 triggers[id].uploadId # j
                   => /\ triggers'[id] = triggers[id]
                      /\ \A kind \in {"early", "final", "error"} :
                           ~RoutineStarted(kind, id)
            /\ (\A id \in TriggerIds : triggers[id].uploadId # j)
                 => triggers' = triggers /\ routines' = routines]_vars

\* an event for upload 2 has changed its trigger next to a trigger of upload 1
C29_Witness ==
  \E a, b \in TriggerIds :
    /\ triggers[a].uploadId = 1 /\ triggers[a].currentStep = "uploading"
    /\ triggers[a].uploadStatus.bytesUploaded = 0
    /\ triggers[b].uploadId = 2 /\ triggers[b].error = "Upload error: Request failed"
    /\ \E r \in BagToSet(routines) : r.id = b /\ r.kind = "error"

ChunkAcknowledged(j) ==
  \E t \in Times :
    \E resp \in ChunkResponses(task[j].putStart, task[j].putSize, jobs[j].bytesTotal) :
      resp.kind \in {"ok", "incomplete"} /\ PutResponse(j, resp, t)

C31_ProgressAfterEveryChunk ==
  [][\A j \in JobIds :
       ChunkAcknowledged(j)
         => emitted'[j].progress = emitted[j].progress + 1]_vars

\* C32: a job emits at most one terminal event over its lifetime: one
\* upload-complete or one upload-error, never both and never one twice.
C32_OneTerminalEvent ==
  \A j \in JobIds : emitted[j].complete + emitted[j].error <= 1

\* C33: no notification routine of a trigger started with a non-empty
\* phoneNumber aborts for lack of a destination: a routine that leaves its
\* location fetch goes on to the messaging gateway.
C33_RoutinesHaveADestination ==
  [][\A r \in BagToSet(routines) :
       LET next == [r EXCEPT !.pc = "gsm"]
       IN  /\ r.pc = "location" /\ flow.phoneNumber # ""
           /\ CopiesIn(r, routines') < CopiesIn(r, routines)
           => CopiesIn(next, routines') > CopiesIn(next, routines)]_vars

\* Progress of a trigger when every collaborator answers: every callback
\* that is ready runs, and every request to the capture, the storage backend,
\* the location and the messaging collaborator returns or throws.
SpecTriggerFair ==
  Init /\ [][NextTrigger]_vars /\ WF_vars(NextTrigger)

\* C34: provided every collaborator call returns or throws, every trigger
\* eventually reaches stage completed or failed.
C34_TriggerTerminates ==
  \A id \in TriggerIds :
    \/ [](triggers[id].currentStep = "absent")
    \/ <>(triggers[id].currentStep \in {"completed", "failed"})

\* Progress of an upload when every remote request is answered, by a
\* server that may answer 404 to any chunk write, any number of times.
\* the chunk PUT returns 404
PutExpired(j, t) ==
  /\ task[j].pc = "put"
  /\ call' = NoCall
  /\ UNCHANGED <<isInitialized, faults, orch>>
  /\ RestartSession(j, t)

\* a step of the background task: a remote request returns
TaskStep ==
  \/ \E j \in JobIds, authOk \in BOOLEAN, exists \in BOOLEAN, size \in FileSizes :
       InitReturn(j, authOk, exists, size)
  \/ \E j \in JobIds, ok \in BOOLEAN, id \in {"null", "id"}, l \in LinkPairs,
        t \in Times : CreateResponse(j, ok, id, l[1], l[2], t)
  \/ \E j \in JobIds, ok \in BOOLEAN, t \in Times : PublicSimpleReturn(j, ok, t)
  \/ \E j \in JobIds, ok \in BOOLEAN, t \in Times : SessionResponse(j, ok, t)
  \/ \E j \in JobIds, t \in Times : ChunkRead(j, t)
  \/ \E j \in JobIds, t \in Times :
       \E resp \in ChunkResponses(task[j].putStart, task[j].putSize, jobs[j].bytesTotal) :
         PutResponse(j, resp, t)
  \/ \E j \in JobIds, t \in Times : PutExpired(j, t)
  \/ \E j \in JobIds, ok \in BOOLEAN, l \in LinkPairs, t \in Times :
       FetchLinksReturn(j, ok, l, t)
  \/ \E j \in JobIds, ok \in BOOLEAN, t \in Times : PublicReturn(j, ok, t)
  \/ \E j \in JobIds, t \in Times : Unwind(j, t)

NextExpiring ==
  \/ \E j \in JobIds, exists \in BOOLEAN, size \in FileSizes :
       StartUpload(j, exists, size)
  \/ TaskStep

SpecExpiring == Init /\ [][NextExpiring]_vars /\ WF_vars(TaskStep)

\* C35: provided every remote request returns a response or an error, every
\* started job eventually reaches completed, failed or canceled, also when
\* the server keeps answering 404 to chunk writes.
C35_JobTerminates ==
  \A j \in JobIds :
    \/ [](jobs[j].status = "absent")
    \/ <>(jobs[j].status \in TerminalStatus)

\* C36: in every state of every trigger the completed flag is true exactly
\* when the stage is completed or failed.
C36_CompletedFlagMatchesStage ==
  \A id \in TriggerIds :
    triggers[id].completed <=> triggers[id].currentStep \in {"completed", "failed"}

\* C37: the Content-Range of every chunk write names the offsets of the file
\* bytes it carries: its start is the file position of the chunk the stream
\* has just yielded.
FilePosition(j) == (task[j].chunkIdx - 1) * CHUNK_SIZE

C37_ContentRangeNamesBytesSent ==
  \A j \in JobIds :
    task[j].pc = "put" => task[j].putStart = FilePosition(j)

\* C38: in the orchestrated runs, where every job is started by the trigger's
\* flow, a step that emits upload-complete or upload-error for a job finds a
\* trigger that already stores that job's id, so the handler does not miss it.
TerminalEvent(j) == Delivered(j, "complete") \/ Delivered(j, "error")

C38_TerminalEventFindsItsTrigger ==
  [][\A j \in JobIds : TerminalEvent(j) => Owners(j) # {}]_vars

C38_Witness ==
  \E j \in JobIds, id \in TriggerIds :
    /\ emitted[j].complete + emitted[j].error > 0
    /\ triggers[id].currentStep # "absent"
    /\ triggers[id].uploadId = j

(***************************************************************************)
(* Two startTrigger calls: the second arrives while the flow of the first  *)
(* awaits ensureGSMInitialized, possibly at the same clock value.  From    *)
(* then on the flow of the later call is followed; the flow of the earlier *)
(* call stays at that await.                                               *)
(***************************************************************************)
\* startTrigger up to the first await of executeFlow, called while a flow runs:
\* const id = `trigger_${Date.now()}`; this.triggers.set(id, status)
StartTriggerAgain(phoneNumber, sendEarlyNotification, t) ==
  /\ UNCHANGED held
  /\ flow.pc = "gsm"
  /\ ReadClock(t)
  /\ call' = [op |-> "startTrigger", id |-> t, ret |-> "ok"]
  /\ triggers' = [triggers EXCEPT ![t] = InitialTrigger]
  /\ flow' = [pc |-> "gsm", id |-> t, phoneNumber |-> phoneNumber,
              sendEarlyNotification |-> sendEarlyNotification,
              elapsedTime |-> 0]
  /\ UNCHANGED <<jobs, task, isInitialized, emitted, lastProgress, faults,
                 routines, gsmInitialized, sms>>

NextRetrigger ==
  \/ NextTrigger
  \/ \E p \in PhoneNumbers, early \in BOOLEAN, t \in Times :
       StartTriggerAgain(p, early, t)

SpecRetrigger == Init /\ [][NextRetrigger]_vars

\* C39: every startTrigger call takes an id that is not yet in the trigger
\* table, so two calls give two ids and two entries and the later call does
\* not overwrite the entry of the earlier one, also at the same clock value.
StartTriggerCalled(t) ==
  \E p \in PhoneNumbers, early \in BOOLEAN :
    StartTrigger(p, early, t) \/ StartTriggerAgain(p, early, t)

C39_TriggerIdsAreFresh ==
  [][\A t \in Times :
       StartTriggerCalled(t) => triggers[t].currentStep = "absent"]_vars

(***************************************************************************)
(* An upload against a server whose 308 may report a received range that   *)
(* ends ahead of the bytes sent, though before bytesTotal.                 *)
(***************************************************************************)
\* the chunk PUT returns 308 with Range: bytes=0-<last>, last beyond the last
\* byte sent and before bytesTotal
PutOverAcknowledged(j, last, t) ==
  /\ task[j].pc = "put"
  /\ task[j].putStart + task[j].putSize - 1 < last
  /\ last < jobs[j].bytesTotal
  /\ call' = NoCall
  /\ UNCHANGED <<isInitialized, faults, orch>>
  /\ Incomplete(j, RangeHeader("bytes=", 0, last), t)

\* the received range a response reports, if any, ends before bytesTotal
EndsBeforeTotal(h, fileSize) == h.present => h.last < fileSize

NextMisreport ==
  \/ \E j \in JobIds, exists \in BOOLEAN, size \in FileSizes :
       StartUpload(j, exists, size)
  \/ \E j \in JobIds, authOk \in BOOLEAN, exists \in BOOLEAN, size \in FileSizes :
       InitReturn(j, authOk, exists, size)
  \/ \E j \in JobIds, ok \in BOOLEAN, id \in {"null", "id"}, l \in LinkPairs,
        t \in Times : CreateResponse(j, ok, id, l[1], l[2], t)
  \/ \E j \in JobIds, ok \in BOOLEAN, t \in Times : PublicSimpleReturn(j, ok, t)
  \/ \E j \in JobIds, ok \in BOOLEAN, t \in Times : SessionResponse(j, ok, t)
  \/ \E j \in JobIds, t \in Times : ChunkRead(j, t)
  \/ \E j \in JobIds, t \in Times :
       \E resp \in ChunkResponses(task[j].putStart, task[j].putSize, jobs[j].bytesTotal) :
         /\ EndsBeforeTotal(resp.range, jobs[j].bytesTotal)
         /\ PutResponse(j, resp, t)
  \/ \E j \in JobIds, t \in Times :
       \E last \in {jobs[j].bytesTotal - 2, jobs[j].bytesTotal - 1} :
         PutOverAcknowledged(j, last, t)
  \/ \E j \in JobIds, ok \in BOOLEAN, l \in LinkPairs, t \in Times :
       FetchLinksReturn(j, ok, l, t)
  \/ \E j \in JobIds, ok \in BOOLEAN, t \in Times : PublicReturn(j, ok, t)
  \/ \E j \in JobIds, t \in Times : Unwind(j, t)

SpecMisreport == Init /\ [][NextMisreport]_vars

\* C40: in every state of every job 0 <= bytesUploaded <= bytesTotal and
\* 0 <= percentComplete <= 100 (every Range the server reports in these runs
\* ends before bytesTotal).
C40_ProgressWithinBounds ==
  \A j \in JobIds :
    /\ 0 <= jobs[j].bytesUploaded /\ jobs[j].bytesUploaded <= jobs[j].bytesTotal
    /\ 0 <= jobs[j].percentComplete /\ jobs[j].percentComplete <= 100

====
